---- MODULE Spec2Model ----
(***************************************************************************)
(* Cooperative ledger: members, contributions, loans, loan payments and    *)
(* the year-end clear, as implemented by the data-access functions of      *)
(* api/loans.ts, api/contributions.ts, api/yearEnd.ts and api/members.ts   *)
(* and by the dashboard folds of App.tsx.                                  *)
(*                                                                         *)
(* Money is counted in centavos (1 peso = 100), so that a numeric rounded  *)
(* to 2 decimals is an integer.                                            *)
(***************************************************************************)
EXTENDS Integers, Sequences, FiniteSets, TLC

VARIABLES
    members,        \* table public.members: member id -> row
    loans,          \* table public.loans: loan id -> row
    loan_payments,  \* table public.loan_payments: set of rows
    contributions,  \* table public.contributions: set of rows
    loans_id_seq,           \* last value handed out by loans_id_seq
    loan_payments_id_seq,   \* last value handed out by loan_payments_id_seq
    contributions_id_seq,   \* last value handed out by contributions_id_seq
    last,           \* the call that ran last: its input, what it read, how it ended
    pc,             \* clients: position of each inside the call it is making
    call,           \* racing clients: input and locals of each call
    scenario,       \* racing clients: the loan and the two amounts of the race
    ui              \* React state of App.tsx and of YearEndModal.tsx

storeVars == <<members, loans, loan_payments, contributions,
               loans_id_seq, loan_payments_id_seq, contributions_id_seq>>
raceVars == <<pc, call, scenario>>
vars == <<storeVars, last, raceVars, ui>>

----------------------------------------------------------------------------
\* Bounds of the model.

MaxMembers == 1
MaxLoans == 1
MaxPayments == 2
MaxContributions == 1
MaxPreviewMembers == 2
MaxPenalties == 1
\* runs of the fetchAllPayments effect in flight at once
MaxFetches == 2

----------------------------------------------------------------------------
\* Types and program constants.

LoanStatus == {"APPROVED", "RELEASED", "ONGOING", "COMPLETED", "CANCELLED"}
PaymentType == {"SERVICE_CHARGE", "PRINCIPAL"}
ContributionType == {"SHARE", "SOCIAL_FUND"}

\* service_charge_rate numeric NOT NULL DEFAULT 0.02, as a percentage
ServiceChargeRatePct == 2

Max(a, b) == IF a >= b THEN a ELSE b

\* round(x / 100) of SQL numeric (half away from zero), for x in centavos*pct
RoundDiv100(x) == IF x >= 0 THEN (x + 50) \div 100 ELSE -((-x + 50) \div 100)

\* A default that drops the fraction of a centavo.
DefaultServiceChargeAmountTruncated(principal_amount) ==
    (principal_amount * ServiceChargeRatePct) \div 100

\* DEFAULT round((principal_amount * service_charge_rate), 2)
DefaultServiceChargeAmount(principal_amount) ==
    RoundDiv100(principal_amount * ServiceChargeRatePct)

----------------------------------------------------------------------------
\* Inputs the callers are drawn from.

MemberNames == {"Ana"}
\* principal of a new loan, centavos: negative, 10,000.00
PrincipalInputs == {-100, 1000000}
\* amount of a payment: missing (<<>>) or <<centavos>>
AmountInputs == {<<>>, <<-100>>, <<0>>, <<400000>>, <<1000000>>}
\* status of a new loan: not supplied (<<>>) or <<status>>
StatusInputs == {<<>>, <<"RELEASED">>}
\* status an operator sets
StatusUpdates == {"CANCELLED"}
DeleteFaults == {"none", "delete"}
ContributionAmounts == {0, 50000}
LoanIdInputs == 1..MaxLoans
\* the loan an operator deletes or pays: the two on the books, and an id no
\* loan has
BookLoanIds == {1, 2, 3}
\* borrower of a new loan: the first member, and an id no member has
BorrowerInputs == {1, 2}

\* balances of a member at the year's end, centavos: 2 shares of 500.00, 6
\* shares, no share (with a social fund of 100.01 and penalties of 50.00),
\* 1 share, nothing, 1 share with a social fund of 100.01
MemberProfiles ==
    {[total_shares |-> 100000, total_social_fund_contributions |-> 10000,
      total_penalties |-> 0],
     [total_shares |-> 300000, total_social_fund_contributions |-> 10000,
      total_penalties |-> 0],
     [total_shares |-> 0, total_social_fund_contributions |-> 10001,
      total_penalties |-> 5000],
     [total_shares |-> 50000, total_social_fund_contributions |-> 0,
      total_penalties |-> 0],
     [total_shares |-> 0, total_social_fund_contributions |-> 0,
      total_penalties |-> 0],
     [total_shares |-> 50000, total_social_fund_contributions |-> 10001,
      total_penalties |-> 0]}
\* principal of a new loan on the lending page, centavos: negative, 10.24,
\* 10.25 (2% is 0.2050), 10,000.00
LoanPrincipals == {-100, 1024, 1025, 1000000}
\* the penalty the operator records, centavos: 50.00
PenaltyAmount == 5000
\* the loans of the year: none, or one of 5,000.00
PreviewPrincipals == {<<>>, <<500000>>}

NoLoanData == [principal_amount |-> 0, service_charge_amount |-> 0]

\* The record of a call: input, the loan row it fetched, the step that threw
\* ("none": it returned), the id of the row it inserted (0: none), its result.
Call(op, loan_id, payment_type, amount, failed, loanData, payment_id, result) ==
    [op |-> op, loan_id |-> loan_id, payment_type |-> payment_type,
     amount |-> amount, failed |-> failed, loanData |-> loanData,
     payment_id |-> payment_id, result |-> result]

NoCall == Call("none", 0, "", <<>>, "none", NoLoanData, 0, "ok")

\* The useState initial values: members [], loans [], allLoanPayments [],
\* error null, the year-end modal and report closed, no distribution,
\* yearEndLoading false; and of the modal: no password prompt, password '',
\* passwordError ''. No run of the fetchAllPayments effect is in flight.
NoUi ==
    [members |-> <<>>, loans |-> <<>>, allLoanPayments |-> {},
     error |-> <<>>, yearEndModalOpen |-> FALSE, yearEndDistribution |-> <<>>,
     yearEndReportOpen |-> FALSE, showPasswordPrompt |-> FALSE,
     password |-> <<>>, passwordError |-> "", yearEndLoading |-> FALSE,
     fetches |-> {}]

----------------------------------------------------------------------------
\* Rows.

MemberRow(full_name) ==
    [full_name |-> full_name, total_shares |-> 0,
     total_social_fund_contributions |-> 0, total_penalties |-> 0]

\* createLoan's insert: status is the caller's or 'APPROVED'; the service
\* charge is the column default, the rate is never supplied.
LoanRow(borrower_id, principal_amount, status) ==
    [borrower_id |-> borrower_id,
     principal_amount |-> principal_amount,
     service_charge_amount |-> DefaultServiceChargeAmount(principal_amount),
     status |-> IF status = <<>> THEN "APPROVED" ELSE status[1]]

PaymentRow(id, loan_id, payment_type, amount) ==
    [id |-> id, loan_id |-> loan_id, payment_type |-> payment_type,
     amount |-> amount]

ContributionRow(id, member_id, type, amount) ==
    [id |-> id, member_id |-> member_id, type |-> type, amount |-> amount]

\* A loans table without its CHECK constraint.
LoansCheckDropped(row) == TRUE

\* CHECK (principal_amount >= 0::numeric)
LoansCheck(row) == row.principal_amount >= 0

\* CHECK (amount > 0::numeric), on loan_payments and on contributions
AmountCheck(row) == row.amount > 0

RECURSIVE SumAmounts(_)
\* rows.reduce((acc, p) => acc + Number(p.amount || 0), 0)
SumAmounts(rows) ==
    IF rows = {} THEN 0
    ELSE LET r == CHOOSE x \in rows : TRUE
         IN  r.amount + SumAmounts(rows \ {r})

\* The member balances the store's triggers derive from the contribution rows.
MemberTotals(member_id, m, rows) ==
    [m EXCEPT
        !.total_shares =
            SumAmounts({r \in rows : r.member_id = member_id /\ r.type = "SHARE"}),
        !.total_social_fund_contributions =
            SumAmounts({r \in rows : r.member_id = member_id
                                      /\ r.type = "SOCIAL_FUND"})]

----------------------------------------------------------------------------
\* api/members.ts, api/contributions.ts

CreateMember(full_name) ==
    /\ Cardinality(DOMAIN members) < MaxMembers
    /\ LET id == Cardinality(DOMAIN members) + 1
       IN  members' = [i \in DOMAIN members \cup {id} |->
                          IF i = id THEN MemberRow(full_name) ELSE members[i]]
    /\ last' = Call("createMember", 0, "", <<>>, "none", NoLoanData, 0, "ok")
    /\ UNCHANGED <<loans, loan_payments, contributions, loans_id_seq,
                   loan_payments_id_seq, contributions_id_seq, raceVars, ui>>

\* createContribution: one insert; the row needs an existing member (foreign
\* key) and amount > 0 (CHECK).
CreateContribution(member_id, type, amount) ==
    LET row == ContributionRow(contributions_id_seq + 1, member_id, type, amount)
        ok  == member_id \in DOMAIN members /\ AmountCheck(row)
    IN  /\ contributions_id_seq < MaxContributions
        /\ contributions' = IF ok THEN contributions \cup {row} ELSE contributions
        /\ contributions_id_seq' =
              IF ok THEN contributions_id_seq + 1 ELSE contributions_id_seq
        /\ members' = [i \in DOMAIN members |->
                          MemberTotals(i, members[i], contributions')]
        /\ last' = Call("createContribution", 0, "", <<amount>>,
                        IF ok THEN "none" ELSE "insert", NoLoanData, 0,
                        IF ok THEN "ok" ELSE "error")
        /\ UNCHANGED <<loans, loan_payments, loans_id_seq, loan_payments_id_seq,
                       raceVars, ui>>

----------------------------------------------------------------------------
\* api/loans.ts

\* createLoan: one insert; the row needs an existing borrower (foreign key)
\* and principal_amount >= 0 (CHECK).
CreateLoanCall(borrower_id, principal_amount, status) ==
    LET row == LoanRow(borrower_id, principal_amount, status)
        id  == loans_id_seq + 1
        ok  == borrower_id \in DOMAIN members /\ LoansCheck(row)
    IN  /\ loans_id_seq < MaxLoans
        /\ loans' = IF ok
                    THEN [i \in DOMAIN loans \cup {id} |->
                             IF i = id THEN row ELSE loans[i]]
                    ELSE loans
        /\ loans_id_seq' = IF ok THEN id ELSE loans_id_seq
        /\ last' = Call("createLoan", IF ok THEN id ELSE 0, "",
                        <<principal_amount>>, IF ok THEN "none" ELSE "insert",
                        NoLoanData, 0, IF ok THEN "ok" ELSE "error")
        /\ UNCHANGED <<members, loan_payments, contributions,
                       loan_payments_id_seq, contributions_id_seq, raceVars>>

\* createLoan, called by a client of the API.
CreateLoan(borrower_id, principal_amount, status) ==
    CreateLoanCall(borrower_id, principal_amount, status) /\ UNCHANGED ui

\* updateLoanStatus: update ... .single() fails when no row has the id.
UpdateLoanStatus(loanId, status) ==
    LET ok == loanId \in DOMAIN loans
    IN  /\ loans' = IF ok THEN [loans EXCEPT ![loanId].status = status] ELSE loans
        /\ last' = Call("updateLoanStatus", loanId, "", <<>>,
                        IF ok THEN "none" ELSE "update", NoLoanData, 0,
                        IF ok THEN "ok" ELSE "error")
        /\ UNCHANGED <<members, loan_payments, contributions, loans_id_seq,
                       loan_payments_id_seq, contributions_id_seq, raceVars, ui>>

\* A delete that leaves the loan's payments behind.
DeleteLoanKeepingPayments(loanId, fault) ==
    LET ok == fault = "none"
    IN  /\ loans' = IF ok
                    THEN [i \in DOMAIN loans \ {loanId} |-> loans[i]]
                    ELSE loans
        /\ last' = Call("deleteLoan", loanId, "", <<>>, fault, NoLoanData, 0,
                        IF ok THEN "ok" ELSE "error")
        /\ UNCHANGED <<members, loan_payments, contributions, loans_id_seq,
                       loan_payments_id_seq, contributions_id_seq, raceVars, ui>>

\* deleteLoan: one delete by id. The store either refuses it (fault "delete":
\* a store error, among them the foreign key of loan_payments refusing the
\* delete) or removes the loan, and then no payment row may still refer to it.
DeleteLoan(loanId, fault) ==
    LET ok == fault = "none"
    IN  /\ loans' = IF ok
                    THEN [i \in DOMAIN loans \ {loanId} |-> loans[i]]
                    ELSE loans
        /\ loan_payments' = IF ok
                            THEN {p \in loan_payments : p.loan_id # loanId}
                            ELSE loan_payments
        /\ last' = Call("deleteLoan", loanId, "", <<>>, fault, NoLoanData, 0,
                        IF ok THEN "ok" ELSE "error")
        /\ UNCHANGED <<members, contributions, loans_id_seq,
                       loan_payments_id_seq, contributions_id_seq, raceVars, ui>>

\* A fetch that reports a row for every id.
LoanFoundAlways(loan_id) == TRUE

\* .eq('id', input.loan_id).single(): an error unless exactly one row matches
LoanFound(loan_id) == loan_id \in DOMAIN loans

\* .select('principal_amount, service_charge_amount'), Number(x || 0) of each
FetchLoanData(loan_id) ==
    IF loan_id \in DOMAIN loans
    THEN [principal_amount |-> loans[loan_id].principal_amount,
          service_charge_amount |-> loans[loan_id].service_charge_amount]
    ELSE NoLoanData

\* CONSTRAINT loan_payments_loan_id_fkey FOREIGN KEY (loan_id) REFERENCES loans
LoanPaymentsFkey(row) == row.loan_id \in DOMAIN loans

\* A check of the amount that lets a negative amount through.
InvalidAmountFalsyOnly(payment_type, amount) ==
    /\ payment_type # "SERVICE_CHARGE"
    /\ (amount = <<>> \/ amount[1] = 0)

\* if (!input.amount || input.amount <= 0) throw ..., for a PRINCIPAL payment
InvalidAmount(payment_type, amount) ==
    /\ payment_type # "SERVICE_CHARGE"
    /\ (amount = <<>> \/ amount[1] = 0 \/ amount[1] <= 0)

\* A payment amount that prefers the caller's amount when there is one.
PaymentAmountCallerFirst(payment_type, amount, loanData) ==
    IF amount # <<>> THEN amount[1] ELSE loanData.service_charge_amount

\* paymentAmount: the loan's full service charge, or the amount provided
PaymentAmount(payment_type, amount, loanData) ==
    IF payment_type = "SERVICE_CHARGE"
    THEN loanData.service_charge_amount
    ELSE amount[1]

\* A new principal without the floor at 0.
NewPrincipalUnfloored(currentPrincipal, paymentAmount) ==
    currentPrincipal - paymentAmount

\* const newPrincipal = Math.max(0, currentPrincipal - paymentAmount)
NewPrincipal(currentPrincipal, paymentAmount) ==
    Max(0, currentPrincipal - paymentAmount)

\* A status update taken after every PRINCIPAL payment.
AutoCompletesAlways(newPrincipal) == TRUE

\* if (newPrincipal === 0) update({ status: 'COMPLETED' })
AutoCompletes(newPrincipal) == newPrincipal = 0

\* The store calls of createLoanPayment, in order; a fault names the one that
\* returns an error (the call must get that far).
PaymentFaults == {"none", "select", "insert", "update", "status"}

\* createLoanPayment, the whole call: fetch the loan, resolve the amount,
\* insert the payment, and for a PRINCIPAL payment write the new principal
\* and, at 0, the status. Each step runs only if every earlier one succeeded.
CreateLoanPaymentCall(loan_id, payment_type, amount, fault) ==
    LET found    == LoanFound(loan_id) /\ fault # "select"
        loanData == IF found THEN FetchLoanData(loan_id) ELSE NoLoanData
        valid    == found /\ ~InvalidAmount(payment_type, amount)
        paymentAmount == IF valid
                         THEN PaymentAmount(payment_type, amount, loanData)
                         ELSE 0
        row      == PaymentRow(loan_payments_id_seq + 1, loan_id, payment_type,
                               paymentAmount)
        inserted == /\ valid /\ fault # "insert"
                    /\ LoanPaymentsFkey(row) /\ AmountCheck(row)
        newPrincipal == NewPrincipal(loanData.principal_amount, paymentAmount)
        reduces  == inserted /\ payment_type = "PRINCIPAL"
        updated  == reduces /\ fault # "update"
        completes == updated /\ AutoCompletes(newPrincipal)
        statusSet == completes /\ fault # "status"
        made     == CASE fault = "none"   -> TRUE
                      [] fault = "select" -> TRUE
                      [] fault = "insert" -> LoanFound(loan_id) /\ valid
                      [] fault = "update" -> reduces
                      [] fault = "status" -> completes
        failed   == IF ~found THEN "select"
                    ELSE IF ~valid THEN "amount"
                    ELSE IF ~inserted THEN "insert"
                    ELSE IF reduces /\ ~updated THEN "update"
                    ELSE IF completes /\ ~statusSet THEN "status"
                    ELSE "none"
    IN  /\ loan_payments_id_seq < MaxPayments
        /\ made
        /\ loan_payments' = IF inserted THEN loan_payments \cup {row}
                            ELSE loan_payments
        /\ loan_payments_id_seq' = IF inserted THEN loan_payments_id_seq + 1
                                   ELSE loan_payments_id_seq
        /\ loans' = IF updated
                    THEN [loans EXCEPT
                            ![loan_id].principal_amount = newPrincipal,
                            ![loan_id].status =
                                IF statusSet THEN "COMPLETED" ELSE @]
                    ELSE loans
        /\ last' = Call("createLoanPayment", loan_id, payment_type, amount,
                        failed, loanData, IF inserted THEN row.id ELSE 0,
                        IF failed = "none" THEN "ok" ELSE "error")
        /\ UNCHANGED <<members, contributions, loans_id_seq,
                       contributions_id_seq, raceVars>>

\* createLoanPayment, called by a client of the API.
CreateLoanPayment(loan_id, payment_type, amount, fault) ==
    CreateLoanPaymentCall(loan_id, payment_type, amount, fault) /\ UNCHANGED ui

\* computeLoanBalance(loan): principal + serviceCharge of the stored row
computeLoanBalance(loan) == loan.principal_amount + loan.service_charge_amount

----------------------------------------------------------------------------
\* App.tsx: the dashboard folds, over the loans and payments of the store.

\* allLoanPayments.filter(p => p.loan_id === loan.id)
\*               .filter(p => p.payment_type === type).reduce(...)
PaidOfType(loan_id, payment_type) ==
    SumAmounts({p \in loan_payments :
                   p.loan_id = loan_id /\ p.payment_type = payment_type})

\* const unpaidPrincipal = Math.max(0, principal_amount - principalPayments)
UnpaidPrincipal(loan_id) ==
    Max(0, loans[loan_id].principal_amount - PaidOfType(loan_id, "PRINCIPAL"))

\* An unpaid service charge read off the stored row alone.
UnpaidServiceChargeStored(loan_id) == loans[loan_id].service_charge_amount

\* const unpaidServiceCharge =
\*     Math.max(0, service_charge_amount - serviceChargePayments)
UnpaidServiceCharge(loan_id) ==
    Max(0, loans[loan_id].service_charge_amount
           - PaidOfType(loan_id, "SERVICE_CHARGE"))

\* the term of totalOutstandingLoans for one loan
OutstandingBalance(loan_id) ==
    UnpaidPrincipal(loan_id) + UnpaidServiceCharge(loan_id)

----------------------------------------------------------------------------
\* api/yearEnd.ts

\* The three deletes of clearYearData, in order; a fault names the one that
\* returns an error.
ClearFaults == {"none", "payments", "loans", "contributions"}

\* A clear that never reaches the contributions.
ClearsContributionsNever(fault) == FALSE

\* Which tables clearYearData has emptied when it returns or throws: each
\* delete runs only if the ones before it returned no error.
ClearsPayments(fault) == fault # "payments"
ClearsLoans(fault) == fault \notin {"payments", "loans"}
ClearsContributions(fault) == fault = "none"

\* The deletes of clearYearData: all loan_payments, then all loans, then all
\* contributions, stopping at the first error. The store's triggers bring the
\* members' share and social-fund balances to the remaining rows.
ClearYearDataDeletes(fault) ==
    /\ loan_payments' = IF ClearsPayments(fault) THEN {} ELSE loan_payments
    /\ loans' = IF ClearsLoans(fault) THEN <<>> ELSE loans
    /\ contributions' = IF ClearsContributions(fault) THEN {} ELSE contributions
    /\ members' = IF ClearsContributions(fault)
                  THEN [i \in DOMAIN members |->
                           MemberTotals(i, members[i], contributions')]
                  ELSE members
    /\ UNCHANGED <<loans_id_seq, loan_payments_id_seq, contributions_id_seq>>

\* clearYearData, the whole call, made by a client of the API.
ClearYearData(fault) ==
    /\ ClearYearDataDeletes(fault)
    /\ last' = Call("clearYearData", 0, "", <<>>, fault, NoLoanData, 0,
                    IF fault = "none" THEN "ok" ELSE "error")
    /\ UNCHANGED <<raceVars, ui>>

----------------------------------------------------------------------------
\* clearYearData, one store call at a time: client 1 is inside the call, at
\* pc[1], between two of its deletes.

\* An order that deletes the loans before the payments.
ClearOrderLoansFirst ==
    <<"delete loans", "delete loan_payments", "delete contributions">>

\* the three deletes of clearYearData, in the order the function issues them
ClearOrder == <<"delete loan_payments", "delete loans", "delete contributions">>

\* where the call stands: before its first delete, after its first, after
\* its second
ClearPositions == <<"idle", "deleted 1", "deleted 2">>

ClearIndex(position) ==
    CHOOSE k \in DOMAIN ClearPositions : ClearPositions[k] = position

\* .from(table).delete().neq('id', -1) returns an error: a store fault, or
\* loan_payments_loan_id_fkey while a payment row still refers to a loan.
DeleteRefused(delete, fault) ==
    fault \/ (delete = "delete loans" /\ loan_payments # {})

\* The next delete of clearYearData: it empties its table, or returns an
\* error and the call throws.
ClearStep(fault) ==
    /\ pc[1] \in {ClearPositions[k] : k \in DOMAIN ClearPositions}
    /\ LET k       == ClearIndex(pc[1])
           delete  == ClearOrder[k]
           refused == DeleteRefused(delete, fault)
           done    == ~refused /\ k = Len(ClearOrder)
       IN  /\ loan_payments' = IF delete = "delete loan_payments" /\ ~refused
                               THEN {} ELSE loan_payments
           /\ loans' = IF delete = "delete loans" /\ ~refused
                       THEN <<>> ELSE loans
           /\ contributions' = IF delete = "delete contributions" /\ ~refused
                               THEN {} ELSE contributions
           /\ members' = [i \in DOMAIN members |->
                             MemberTotals(i, members[i], contributions')]
           /\ pc' = [pc EXCEPT ![1] = IF refused \/ done THEN "idle"
                                      ELSE ClearPositions[k + 1]]
           /\ last' = Call(delete, 0, "", <<>>,
                           IF refused THEN "delete" ELSE "none", NoLoanData, 0,
                           IF refused THEN "error"
                           ELSE IF done THEN "ok" ELSE "pending")
    /\ UNCHANGED <<loans_id_seq, loan_payments_id_seq, contributions_id_seq,
                   call, scenario, ui>>

----------------------------------------------------------------------------
\* api/yearEnd.ts: computeYearEndDistribution

RECURSIVE SumFn(_)
\* list.reduce((sum, x) => sum + Number(x.field || 0), 0), f[i] the field of x
SumFn(f) ==
    IF DOMAIN f = {} THEN 0
    ELSE LET i == CHOOSE x \in DOMAIN f : TRUE
         IN  f[i] + SumFn([j \in DOMAIN f \ {i} |-> f[j]])

\* A rounding that drops the fraction.
RoundRatioDown(num, den) == num \div den

\* Math.round(x * 100) / 100 of the amount x = num / den centavos, den > 0:
\* the nearest centavo, a half going up
RoundRatio(num, den) == (2 * num + den) \div (2 * den)

\* socialFundShare = numMembers > 0 ? totalSocialFund / numMembers : 0,
\* as returned: Math.round(socialFundShare * 100) / 100
SocialFundShare(totalSocialFund, numMembers) ==
    IF numMembers > 0 THEN RoundRatio(totalSocialFund, numMembers) ELSE 0

RECURSIVE Gcd(_, _)
Gcd(a, b) == IF b = 0 THEN a ELSE Gcd(b, a % b)

\* memberShares / totalShares, totalShares > 0, in lowest terms
SharesRatio(memberShares, totalShares) ==
    LET g == Gcd(memberShares, totalShares)
    IN  [num |-> memberShares \div g, den |-> totalShares \div g]

\* Earnings that go to every member whole when nobody holds a share.
ServiceChargeEarningsUnguarded(memberShares, totalShares, totalEarningsWithPenalties) ==
    IF totalShares > 0
    THEN LET r == SharesRatio(memberShares, totalShares)
         IN  RoundRatio(r.num * totalEarningsWithPenalties, r.den)
    ELSE totalEarningsWithPenalties

\* serviceChargeEarnings = totalShares > 0
\*     ? (memberShares / totalShares) * totalEarningsWithPenalties : 0,
\* as returned: Math.round(serviceChargeEarnings * 100) / 100
ServiceChargeEarnings(memberShares, totalShares, totalEarningsWithPenalties) ==
    IF totalShares > 0
    THEN LET r == SharesRatio(memberShares, totalShares)
         IN  RoundRatio(r.num * totalEarningsWithPenalties, r.den)
    ELSE 0

\* totalDistribution = Math.round((memberShares + serviceChargeEarnings
\*     + socialFundShare) * 100) / 100, of the two shares before their
\* rounding; memberShares is a whole number of centavos
TotalDistribution(memberShares, totalShares, totalEarningsWithPenalties, totalSocialFund, numMembers) ==
    LET r == IF totalShares > 0 THEN SharesRatio(memberShares, totalShares)
             ELSE [num |-> 0, den |-> 1]
        n == IF numMembers > 0 THEN numMembers ELSE 1
        social == IF numMembers > 0 THEN totalSocialFund ELSE 0
    IN  memberShares
        + RoundRatio(r.num * totalEarningsWithPenalties * n + social * r.den,
                     r.den * n)

\* computeYearEndDistribution(members, loans): the totals, then one row per
\* member
computeYearEndDistribution(ms, ls) ==
    LET totalShares == SumFn([i \in DOMAIN ms |-> ms[i].total_shares])
        totalServiceChargeEarnings ==
            SumFn([i \in DOMAIN ls |-> ls[i].service_charge_amount])
        totalPenalties == SumFn([i \in DOMAIN ms |-> ms[i].total_penalties])
        totalEarningsWithPenalties == totalServiceChargeEarnings + totalPenalties
        totalSocialFund ==
            SumFn([i \in DOMAIN ms |-> ms[i].total_social_fund_contributions])
        numMembers == Cardinality(DOMAIN ms)
    IN  [members |->
            [i \in DOMAIN ms |->
                [full_name |-> ms[i].full_name,
                 totalShares |-> ms[i].total_shares,
                 serviceChargeEarnings |->
                     ServiceChargeEarnings(ms[i].total_shares, totalShares,
                                           totalEarningsWithPenalties),
                 socialFundShare |-> SocialFundShare(totalSocialFund, numMembers),
                 totalDistribution |->
                     TotalDistribution(ms[i].total_shares, totalShares,
                                       totalEarningsWithPenalties,
                                       totalSocialFund, numMembers)]],
         summary |->
            [totalShares |-> totalShares,
             totalServiceChargeEarnings |-> totalEarningsWithPenalties,
             totalSocialFund |-> totalSocialFund,
             numMembers |-> numMembers]]

----------------------------------------------------------------------------
\* App.tsx: the dashboard's service-charge earnings, over the loans and
\* payments of the store.

\* Earnings counted when accrued: the service charges of the loans.
totalServiceChargeEarningsAccrued ==
    SumFn([i \in DOMAIN loans |-> loans[i].service_charge_amount])

\* const totalServiceChargeEarnings = loans.reduce((sum, loan) =>
\*     sum + paidServiceCharges, 0): only PAID service charges
totalServiceChargeEarnings ==
    SumFn([i \in DOMAIN loans |-> PaidOfType(i, "SERVICE_CHARGE")])

----------------------------------------------------------------------------
\* App.tsx and components/YearEndModal.tsx: the year-end preview, the
\* password prompt and the clear. A password is the sequence of its characters.

\* const correctPassword = 'COMSCA2026'
correctPassword == <<"C", "O", "M", "S", "C", "A", "2", "0", "2", "6">>

\* what the operator types: nothing, a blank, a wrong word, the passphrase,
\* the passphrase followed by a blank
PasswordInputs ==
    {<<>>, <<" ">>, <<"C", "O", "M", "S", "C", "A">>, correctPassword,
     correctPassword \o <<" ">>}

RECURSIVE trim(_)
\* password.trim(): without the blanks at either end
trim(s) ==
    IF s = <<>> THEN s
    ELSE IF Head(s) = " " THEN trim(Tail(s))
    ELSE IF s[Len(s)] = " " THEN trim(SubSeq(s, 1, Len(s) - 1))
    ELSE s

\* if (!password.trim())
PasswordMissing(password) == trim(password) = <<>>

\* A comparison every password passes.
PasswordCorrectAny(password) == TRUE

\* password !== correctPassword, negated
PasswordCorrect(password) == password = correctPassword

\* fetchAllPayments, the effect on [loans]: [] when the page holds no loan;
\* else the listLoanPayments of every loan held; [] when one of them throws
FetchedPayments(ls, ps, failed) ==
    IF DOMAIN ls = {} THEN {}
    ELSE IF failed THEN {}
    ELSE {p \in ps : p.loan_id \in DOMAIN ls}

\* refreshAll after a store change: setMembers(listMembers()),
\* setLoans(listLoans()); then the effect on [loans], fetchAllPayments
Refreshed(u, ms, ls, ps) ==
    [u EXCEPT !.members = ms, !.loans = ls,
              !.allLoanPayments = FetchedPayments(ls, ps, FALSE),
              !.error = <<>>]

\* handleYearEndClick: the "Year-End Distribution" button. It computes the
\* distribution from the members and loans the page holds and opens the modal.
HandleYearEndClick ==
    /\ ~ui.yearEndModalOpen /\ ~ui.yearEndReportOpen
    /\ ui' = [ui EXCEPT
                !.error = <<>>,
                !.yearEndDistribution =
                    <<computeYearEndDistribution(ui.members, ui.loans)>>,
                !.yearEndModalOpen = TRUE,
                !.yearEndLoading = FALSE]
    /\ last' = Call("handleYearEndClick", 0, "", <<>>, "none", NoLoanData, 0,
                    "ok")
    /\ UNCHANGED <<storeVars, raceVars>>

\* A "Cancel" button wired to the clear.
HandleYearEndCancelClearing ==
    /\ ui.yearEndModalOpen /\ ui.yearEndDistribution # <<>>
    /\ ~ui.showPasswordPrompt
    /\ ClearYearDataDeletes("none")
    /\ ui' = [ui EXCEPT !.yearEndModalOpen = FALSE,
                        !.yearEndDistribution = <<>>]
    /\ last' = Call("handleYearEndCancel", 0, "", <<>>, "none", NoLoanData, 0,
                    "ok")
    /\ UNCHANGED raceVars

\* handleYearEndCancel: the "Cancel" button of the preview
HandleYearEndCancel ==
    /\ ui.yearEndModalOpen /\ ui.yearEndDistribution # <<>>
    /\ ~ui.showPasswordPrompt
    /\ ui' = [ui EXCEPT !.yearEndModalOpen = FALSE,
                        !.yearEndDistribution = <<>>]
    /\ last' = Call("handleYearEndCancel", 0, "", <<>>, "none", NoLoanData, 0,
                    "ok")
    /\ UNCHANGED <<storeVars, raceVars>>

\* handleConfirmClick: the "Confirm & Clear" button of the preview
HandleConfirmClick ==
    /\ ui.yearEndModalOpen /\ ui.yearEndDistribution # <<>>
    /\ ~ui.showPasswordPrompt
    /\ ui' = [ui EXCEPT !.showPasswordPrompt = TRUE, !.password = <<>>,
                        !.passwordError = ""]
    /\ last' = Call("handleConfirmClick", 0, "", <<>>, "none", NoLoanData, 0,
                    "ok")
    /\ UNCHANGED <<storeVars, raceVars>>

\* onChange of the password field
SetPassword(password) ==
    /\ ui.yearEndModalOpen /\ ui.yearEndDistribution # <<>>
    /\ ui.showPasswordPrompt
    /\ ui' = [ui EXCEPT !.password = password, !.passwordError = ""]
    /\ last' = Call("setPassword", 0, "", <<>>, "none", NoLoanData, 0, "ok")
    /\ UNCHANGED <<storeVars, raceVars>>

\* handlePasswordCancel: the "Cancel" button of the prompt
HandlePasswordCancel ==
    /\ ui.yearEndModalOpen /\ ui.yearEndDistribution # <<>>
    /\ ui.showPasswordPrompt
    /\ ui' = [ui EXCEPT !.showPasswordPrompt = FALSE, !.password = <<>>,
                        !.passwordError = ""]
    /\ last' = Call("handlePasswordCancel", 0, "", <<>>, "none", NoLoanData, 0,
                    "ok")
    /\ UNCHANGED <<storeVars, raceVars>>

\* A confirm that closes the modal and opens the report before it looks at
\* what clearYearData returned.
HandleYearEndConfirmOpensFirst(u, fault) ==
    /\ ClearYearDataDeletes(fault)
    /\ ui' = IF fault = "none"
             THEN Refreshed([u EXCEPT !.yearEndModalOpen = FALSE,
                                      !.yearEndReportOpen = TRUE,
                                      !.yearEndLoading = FALSE],
                            members', loans', loan_payments')
             ELSE [u EXCEPT !.yearEndModalOpen = FALSE,
                            !.yearEndReportOpen = TRUE,
                            !.error = <<"Failed to clear year data">>,
                            !.yearEndLoading = FALSE]
    /\ last' = Call("clearYearData", 0, "", <<>>, fault, NoLoanData, 0,
                    IF fault = "none" THEN "ok" ELSE "error")
    /\ UNCHANGED raceVars

\* handleYearEndConfirm: clearYearData; when it returns, the modal closes, the
\* report opens and the page refreshes; when it throws, the error is shown.
\* Either way yearEndLoading, true while the handler runs (and the buttons of
\* the modal disabled), is false when it ends.
HandleYearEndConfirm(u, fault) ==
    /\ ClearYearDataDeletes(fault)
    /\ ui' = IF fault = "none"
             THEN Refreshed([u EXCEPT !.yearEndModalOpen = FALSE,
                                      !.yearEndReportOpen = TRUE,
                                      !.yearEndLoading = FALSE],
                            members', loans', loan_payments')
             ELSE [u EXCEPT !.error = <<"Failed to clear year data">>,
                            !.yearEndLoading = FALSE]
    /\ last' = Call("clearYearData", 0, "", <<>>, fault, NoLoanData, 0,
                    IF fault = "none" THEN "ok" ELSE "error")
    /\ UNCHANGED raceVars

\* handlePasswordSubmit: the "Confirm" button of the prompt, or Enter in the
\* field. A missing or wrong password is refused; the right one closes the
\* prompt and calls onConfirm, which is handleYearEndConfirm.
HandlePasswordSubmit(fault) ==
    /\ ui.yearEndModalOpen /\ ui.yearEndDistribution # <<>>
    /\ ui.showPasswordPrompt
    /\ IF PasswordMissing(ui.password)
       THEN /\ ui' = [ui EXCEPT !.passwordError = "Password is required"]
            /\ last' = Call("handlePasswordSubmit", 0, "", <<>>, "password",
                            NoLoanData, 0, "error")
            /\ fault = "none"
            /\ UNCHANGED <<storeVars, raceVars>>
       ELSE IF ~PasswordCorrect(ui.password)
       THEN /\ ui' = [ui EXCEPT !.passwordError = "Incorrect password",
                                !.password = <<>>]
            /\ last' = Call("handlePasswordSubmit", 0, "", <<>>, "password",
                            NoLoanData, 0, "error")
            /\ fault = "none"
            /\ UNCHANGED <<storeVars, raceVars>>
       ELSE HandleYearEndConfirm(
                [ui EXCEPT !.showPasswordPrompt = FALSE, !.password = <<>>,
                           !.passwordError = ""],
                fault)

\* onClose of the report
CloseYearEndReport ==
    /\ ui.yearEndReportOpen /\ ui.yearEndDistribution # <<>>
    /\ ui' = [ui EXCEPT !.yearEndReportOpen = FALSE]
    /\ last' = Call("closeYearEndReport", 0, "", <<>>, "none", NoLoanData, 0,
                    "ok")
    /\ UNCHANGED <<storeVars, raceVars>>

----------------------------------------------------------------------------
\* App.tsx: handleRecordPenalty

\* handleRecordPenalty: the member's penalties as the page holds them, plus
\* the amount, written to members.total_penalties; then refreshAll. An error
\* (the member is not on the page, the update fails) is shown.
HandleRecordPenalty(selectedMemberId, amount, fault) ==
    LET found   == selectedMemberId \in DOMAIN ui.members
        currentPenalties ==
            IF found THEN ui.members[selectedMemberId].total_penalties ELSE 0
        newPenalties == currentPenalties + amount
        updated == found /\ fault = "none"
    IN  /\ amount > 0
        /\ selectedMemberId \in DOMAIN members
        /\ members[selectedMemberId].total_penalties < MaxPenalties * amount
        /\ fault = "update" => found
        /\ members' = IF updated
                      THEN [members EXCEPT
                              ![selectedMemberId].total_penalties = newPenalties]
                      ELSE members
        /\ ui' = IF updated
                 THEN Refreshed(ui, members', loans, loan_payments)
                 ELSE [ui EXCEPT !.error = <<"Failed to record penalty">>]
        /\ last' = Call("handleRecordPenalty", 0, "", <<amount>>,
                        IF ~found THEN "select"
                        ELSE IF ~updated THEN "update" ELSE "none",
                        NoLoanData, 0, IF updated THEN "ok" ELSE "error")
        /\ UNCHANGED <<loans, loan_payments, contributions, loans_id_seq,
                       loan_payments_id_seq, contributions_id_seq, raceVars>>

----------------------------------------------------------------------------
\* App.tsx: the page's loans and payments: refreshAll, handleCreateLoan,
\* handleAddPayment, and the effect that loads allLoanPayments.

\* The store calls of a refresh; a fault names the one that returns an error:
\* listMembers or listLoans ("list"), or a listLoanPayments of the effect
\* ("payments").
RefreshFaults == {"none", "list", "payments"}

\* refreshAll: the members and loans are listed and set, and the effect on
\* [loans] loads the payments of every loan. refreshAll shows the error of a
\* list that fails; the effect catches the error of a listLoanPayments and
\* sets allLoanPayments to [].
RefreshAll(fault) ==
    /\ fault = "payments" => DOMAIN loans # {}
    /\ ui' = IF fault = "list"
             THEN [ui EXCEPT !.error = <<"Failed to load data">>]
             ELSE [ui EXCEPT
                     !.members = members, !.loans = loans,
                     !.allLoanPayments =
                         FetchedPayments(loans, loan_payments,
                                         fault = "payments"),
                     !.error = <<>>]
    /\ last' = Call("refreshAll", 0, "", <<>>, fault, NoLoanData, 0,
                    IF fault = "none" THEN "ok" ELSE "error")
    /\ UNCHANGED <<storeVars, raceVars>>

\* handleCreateLoan: createLoan for the selected member, without a status;
\* the loan returned is put in front of the loans held, and the effect on
\* [loans] reloads the payments. An error is notified.
HandleCreateLoan(selectedMemberId, principal) ==
    /\ principal > 0
    /\ CreateLoanCall(selectedMemberId, principal, <<>>)
    /\ ui' = IF last'.result = "ok"
             THEN LET id == last'.loan_id
                      held == [i \in DOMAIN ui.loans \cup {id} |->
                                  IF i = id THEN loans'[id] ELSE ui.loans[i]]
                  IN  [ui EXCEPT
                         !.loans = held,
                         !.allLoanPayments =
                             FetchedPayments(held, loan_payments', FALSE)]
             ELSE ui

\* handleAddPayment: a PRINCIPAL payment needs an amount > 0, or the error is
\* shown and nothing is called; then createLoanPayment for the selected loan,
\* listLoans and setLoans (and so the effect on [loans]). An error is shown.
HandleAddPayment(selectedLoanId, paymentType, paymentAmount, fault) ==
    IF paymentType = "PRINCIPAL"
       /\ (paymentAmount = <<>> \/ paymentAmount[1] <= 0)
    THEN /\ fault = "none"
         /\ ui' = [ui EXCEPT !.error =
                      <<"Principal payment amount must be greater than 0">>]
         /\ last' = Call("handleAddPayment", selectedLoanId, paymentType,
                         paymentAmount, "amount", NoLoanData, 0, "error")
         /\ UNCHANGED <<storeVars, raceVars>>
    ELSE /\ CreateLoanPaymentCall(selectedLoanId, paymentType,
                                  IF paymentType = "PRINCIPAL"
                                  THEN paymentAmount ELSE <<>>,
                                  fault)
         /\ ui' = IF last'.result = "ok"
                  THEN [ui EXCEPT
                          !.loans = loans',
                          !.allLoanPayments =
                              FetchedPayments(loans', loan_payments', FALSE),
                          !.error = <<>>]
                  ELSE [ui EXCEPT !.error = <<"Failed to add payment">>]

----------------------------------------------------------------------------
\* App.tsx: the fetchAllPayments effect on [loans], one store round trip a
\* step. Every setLoans starts a run; a run lists the payments of each loan
\* of its snapshot in turn and then sets allLoanPayments. Nothing cancels or
\* orders the runs in flight.

\* a run of the effect, over the loans the page held when it started
FetchRun(run, ls) ==
    [run |-> run, todo |-> DOMAIN ls, payments |-> {}]

\* the first run number not in flight
FreeRun(u) ==
    CHOOSE r \in 1..MaxFetches :
        /\ r \notin {f.run : f \in u.fetches}
        /\ \A q \in 1..(r - 1) : q \in {f.run : f \in u.fetches}

\* void fetchAllPayments(): [] at once when the page holds no loan, else a
\* new run in flight
FetchAllPaymentsStart(u, ls) ==
    IF DOMAIN ls = {}
    THEN [u EXCEPT !.allLoanPayments = {}]
    ELSE [u EXCEPT !.fetches = @ \cup {FetchRun(FreeRun(u), ls)}]

\* const payments = await listLoanPayments(loan.id);
\* allPayments.push(...payments): the store serves the read of the run's
\* next loan
FetchAllPaymentsList(f) ==
    /\ f \in ui.fetches
    /\ f.todo # {}
    /\ LET id == CHOOSE i \in f.todo : \A j \in f.todo : i <= j
           listed == {p \in loan_payments : p.loan_id = id}
       IN  /\ ui' = [ui EXCEPT !.fetches =
                        (@ \ {f}) \cup {[f EXCEPT !.todo = @ \ {id},
                                                  !.payments = @ \cup listed]}]
           /\ last' = Call("listLoanPayments", id, "", <<>>, "none",
                           NoLoanData, 0, "ok")
    /\ UNCHANGED <<storeVars, raceVars>>

\* setAllLoanPayments(allPayments): the answer to the run's last read has
\* come back to the page
FetchAllPaymentsSet(f) ==
    /\ f \in ui.fetches
    /\ f.todo = {}
    /\ ui' = [ui EXCEPT !.allLoanPayments = f.payments, !.fetches = @ \ {f}]
    /\ last' = Call("fetchAllPayments", 0, "", <<>>, "none", NoLoanData, 0,
                    "ok")
    /\ UNCHANGED <<storeVars, raceVars>>

\* handleCreateLoan, the effect on [loans] started and left in flight
HandleCreateLoanThenFetch(selectedMemberId, principal) ==
    /\ principal > 0
    /\ Cardinality(ui.fetches) < MaxFetches
    /\ CreateLoanCall(selectedMemberId, principal, <<>>)
    /\ ui' = IF last'.result = "ok"
             THEN LET id == last'.loan_id
                      held == [i \in DOMAIN ui.loans \cup {id} |->
                                  IF i = id THEN loans'[id] ELSE ui.loans[i]]
                  IN  FetchAllPaymentsStart([ui EXCEPT !.loans = held], held)
             ELSE ui

\* handleAddPayment, the effect on [loans] started and left in flight
HandleAddPaymentThenFetch(selectedLoanId, paymentType, paymentAmount) ==
    /\ paymentType = "PRINCIPAL" => (paymentAmount # <<>> /\ paymentAmount[1] > 0)
    /\ Cardinality(ui.fetches) < MaxFetches
    /\ CreateLoanPaymentCall(selectedLoanId, paymentType,
                             IF paymentType = "PRINCIPAL"
                             THEN paymentAmount ELSE <<>>,
                             "none")
    /\ ui' = IF last'.result = "ok"
             THEN FetchAllPaymentsStart(
                      [ui EXCEPT !.loans = loans', !.error = <<>>], loans')
             ELSE [ui EXCEPT !.error = <<"Failed to add payment">>]

----------------------------------------------------------------------------
\* App.tsx: handleRecordPenalty, one await a step. Nothing disables the
\* "Record Penalty" button while a submission is running, so a second
\* submission can start while the first awaits its refreshAll; each reads
\* the members the page holds when it starts.

\* the penalty field as submitted: not a number, 0, -50.00, 25.00 or 50.00
PenaltyInputs ==
    {<<>>, <<0>>, <<-PenaltyAmount>>, <<PenaltyAmount \div 2>>, <<PenaltyAmount>>}

\* !Number.isFinite(amount) || amount <= 0
PenaltyRefused(penaltyAmount) == penaltyAmount = <<>> \/ penaltyAmount[1] <= 0

\* The submission up to the end of its update of members.total_penalties;
\* a refused amount returns before any store call.
RecordPenaltyUpdate(c, selectedMemberId, penaltyAmount) ==
    /\ pc[c] = "idle"
    /\ selectedMemberId \in DOMAIN ui.members
    /\ ui.members[selectedMemberId].total_penalties < MaxPenalties * PenaltyAmount
    /\ IF PenaltyRefused(penaltyAmount)
       THEN /\ last' = Call("handleRecordPenalty", 0, "", penaltyAmount,
                            "amount", NoLoanData, 0, "error")
            /\ UNCHANGED <<storeVars, raceVars, ui>>
       ELSE LET currentPenalties ==
                    ui.members[selectedMemberId].total_penalties
                newPenalties == currentPenalties + penaltyAmount[1]
            IN  /\ members' = [members EXCEPT
                                 ![selectedMemberId].total_penalties = newPenalties]
                /\ ui' = [ui EXCEPT !.error = <<>>]
                /\ pc' = [pc EXCEPT ![c] = "refreshing"]
                /\ last' = Call("handleRecordPenalty", 0, "", penaltyAmount,
                                "none", NoLoanData, 0, "ok")
                /\ UNCHANGED <<loans, loan_payments, contributions,
                               loans_id_seq, loan_payments_id_seq,
                               contributions_id_seq, call, scenario>>

\* await refreshAll(): the submission's refresh comes back
RecordPenaltyRefresh(c) ==
    /\ pc[c] = "refreshing"
    /\ ui' = Refreshed(ui, members, loans, loan_payments)
    /\ pc' = [pc EXCEPT ![c] = "idle"]
    /\ last' = Call("refreshAll", 0, "", <<>>, "none", NoLoanData, 0, "ok")
    /\ UNCHANGED <<storeVars, call, scenario>>

----------------------------------------------------------------------------
\* Two clients inside createLoanPayment at once, each a PRINCIPAL payment on
\* the same loan: the call's store round trips, one step each.

Clients == {1, 2}
RacePrincipals == {1000000}
RaceAmounts == {400000, 600000, 1000000}

NoScenario == [loan_id |-> 0, principal_amount |-> 0, amounts |-> <<>>]

RaceCall(loan_id, amount) ==
    [loan_id |-> loan_id, payment_type |-> "PRINCIPAL", amount |-> <<amount>>,
     loanData |-> NoLoanData]

\* the select of the loan row, and the check of the amount
RaceFetch(c) ==
    /\ pc[c] = "idle"
    /\ LoanFound(call[c].loan_id)
    /\ ~InvalidAmount(call[c].payment_type, call[c].amount)
    /\ call' = [call EXCEPT ![c].loanData = FetchLoanData(call[c].loan_id)]
    /\ pc' = [pc EXCEPT ![c] = "fetched"]
    /\ UNCHANGED <<storeVars, last, scenario, ui>>

\* the insert of the payment row
RaceInsert(c) ==
    /\ pc[c] = "fetched"
    /\ LET row == PaymentRow(loan_payments_id_seq + 1, call[c].loan_id,
                             call[c].payment_type,
                             PaymentAmount(call[c].payment_type, call[c].amount,
                                           call[c].loanData))
       IN  /\ LoanPaymentsFkey(row) /\ AmountCheck(row)
           /\ loan_payments' = loan_payments \cup {row}
           /\ loan_payments_id_seq' = loan_payments_id_seq + 1
    /\ pc' = [pc EXCEPT ![c] = "inserted"]
    /\ UNCHANGED <<members, loans, contributions, loans_id_seq,
                   contributions_id_seq, last, call, scenario, ui>>

\* the update of principal_amount, computed from the row fetched earlier
RaceUpdatePrincipal(c) ==
    /\ pc[c] = "inserted"
    /\ LET newPrincipal ==
               NewPrincipal(call[c].loanData.principal_amount,
                            PaymentAmount(call[c].payment_type, call[c].amount,
                                          call[c].loanData))
       IN  /\ loans' = [loans EXCEPT
                           ![call[c].loan_id].principal_amount = newPrincipal]
           /\ pc' = [pc EXCEPT ![c] = IF AutoCompletes(newPrincipal)
                                      THEN "updated" ELSE "done"]
    /\ UNCHANGED <<members, loan_payments, contributions, loans_id_seq,
                   loan_payments_id_seq, contributions_id_seq, last, call,
                   scenario, ui>>

\* the update of status, made when the principal written was 0
RaceUpdateStatus(c) ==
    /\ pc[c] = "updated"
    /\ loans' = [loans EXCEPT ![call[c].loan_id].status = "COMPLETED"]
    /\ pc' = [pc EXCEPT ![c] = "done"]
    /\ UNCHANGED <<members, loan_payments, contributions, loans_id_seq,
                   loan_payments_id_seq, contributions_id_seq, last, call,
                   scenario, ui>>

----------------------------------------------------------------------------
\* Specifications.

Init ==
    /\ members = <<>>
    /\ loans = <<>>
    /\ loan_payments = {}
    /\ contributions = {}
    /\ loans_id_seq = 0
    /\ loan_payments_id_seq = 0
    /\ contributions_id_seq = 0
    /\ last = NoCall
    /\ pc = [c \in Clients |-> "idle"]
    /\ call = [c \in Clients |-> RaceCall(0, 0)]
    /\ scenario = NoScenario
    /\ ui = NoUi

\* The loan ledger: members, loans (created, re-statused, deleted) and
\* payments, every store call of a payment free to fail.
Next ==
    \/ \E b \in BorrowerInputs, p \in PrincipalInputs, s \in StatusInputs :
          CreateLoan(b, p, s)
    \/ \E id \in LoanIdInputs, s \in StatusUpdates : UpdateLoanStatus(id, s)
    \/ \E id \in LoanIdInputs, f \in DeleteFaults : DeleteLoan(id, f)
    \/ \E id \in LoanIdInputs, t \in PaymentType, a \in AmountInputs,
          f \in PaymentFaults : CreateLoanPayment(id, t, a, f)

\* The ledger once the first member has joined.
InitLedger ==
    /\ members = <<MemberRow("Ana")>>
    /\ loans = <<>>
    /\ loan_payments = {}
    /\ contributions = {}
    /\ loans_id_seq = 0
    /\ loan_payments_id_seq = 0
    /\ contributions_id_seq = 0
    /\ last = Call("createMember", 0, "", <<>>, "none", NoLoanData, 0, "ok")
    /\ pc = [c \in Clients |-> "idle"]
    /\ call = [c \in Clients |-> RaceCall(0, 0)]
    /\ scenario = NoScenario
    /\ ui = NoUi

Spec == InitLedger /\ [][Next]_vars

\* The loan ledger when no store call fails.
NextSound ==
    \/ \E b \in BorrowerInputs, p \in PrincipalInputs, s \in StatusInputs :
          CreateLoan(b, p, s)
    \/ \E id \in LoanIdInputs, s \in StatusUpdates : UpdateLoanStatus(id, s)
    \/ \E id \in LoanIdInputs : DeleteLoan(id, "none")
    \/ \E id \in LoanIdInputs, t \in PaymentType, a \in AmountInputs :
          CreateLoanPayment(id, t, a, "none")

SpecSound == InitLedger /\ [][NextSound]_vars

\* The race: a member and a loan exist (as createMember and createLoan leave
\* them), and each client is about to record one PRINCIPAL payment on it.
InitRace ==
    \E p \in RacePrincipals, a1 \in RaceAmounts, a2 \in RaceAmounts :
        /\ members = <<MemberRow("Ana")>>
        /\ loans = <<LoanRow(1, p, <<>>)>>
        /\ loan_payments = {}
        /\ contributions = {}
        /\ loans_id_seq = 1
        /\ loan_payments_id_seq = 0
        /\ contributions_id_seq = 0
        /\ last = Call("createLoan", 1, "", <<p>>, "none", NoLoanData, 0, "ok")
        /\ pc = [c \in Clients |-> "idle"]
        /\ call = [c \in Clients |-> RaceCall(1, IF c = 1 THEN a1 ELSE a2)]
        /\ scenario = [loan_id |-> 1, principal_amount |-> p,
                       amounts |-> <<a1, a2>>]
        /\ ui = NoUi

NextRace ==
    \E c \in Clients :
        \/ RaceFetch(c)
        \/ RaceInsert(c)
        \/ RaceUpdatePrincipal(c)
        \/ RaceUpdateStatus(c)

SpecRace == InitRace /\ [][NextRace]_vars

\* The year: contributions, loans and payments pile up, and the year is
\* cleared, every delete of the clear free to fail.
NextYearEnd ==
    \/ \E n \in MemberNames : CreateMember(n)
    \/ \E m \in 1..MaxMembers, t \in ContributionType, a \in ContributionAmounts :
          CreateContribution(m, t, a)
    \/ \E b \in 1..MaxMembers : CreateLoan(b, 1000000, <<>>)
    \/ \E id \in LoanIdInputs, t \in PaymentType :
          CreateLoanPayment(id, t, <<400000>>, "none")
    \/ \E f \in ClearFaults : ClearYearData(f)

SpecYearEnd == Init /\ [][NextYearEnd]_vars

\* The year, with the clear taken one delete at a time: nothing else runs
\* while client 1 is inside clearYearData.
NextClear ==
    \/ /\ pc[1] = "idle"
       /\ \/ \E n \in MemberNames : CreateMember(n)
          \/ \E m \in 1..MaxMembers, t \in ContributionType :
                CreateContribution(m, t, 50000)
          \/ \E b \in 1..MaxMembers : CreateLoan(b, 1000000, <<>>)
          \/ \E id \in LoanIdInputs, t \in PaymentType :
                CreateLoanPayment(id, t, <<400000>>, "none")
    \/ \E f \in BOOLEAN : ClearStep(f)

SpecClear == Init /\ [][NextClear]_vars

\* The year's end: the store holds some members with their contributions and
\* penalties and at most one loan, and the page has loaded them (refreshAll
\* on mount). The operator opens the preview, cancels, asks to clear, types
\* passwords, submits; every delete of the clear is free to fail.
InitPreview ==
    \E n \in 1..MaxPreviewMembers :
    \E profile \in [1..n -> MemberProfiles], principal \in PreviewPrincipals :
        /\ members = [i \in 1..n |->
                         [full_name |-> "Ana",
                          total_shares |-> profile[i].total_shares,
                          total_social_fund_contributions |->
                              profile[i].total_social_fund_contributions,
                          total_penalties |-> profile[i].total_penalties]]
        /\ contributions =
               {r \in {ContributionRow(2 * i - 1, i, "SHARE",
                                       profile[i].total_shares) : i \in 1..n}
                      \cup
                      {ContributionRow(2 * i, i, "SOCIAL_FUND",
                           profile[i].total_social_fund_contributions) :
                           i \in 1..n} :
                   AmountCheck(r)}
        /\ contributions_id_seq = 2 * n
        /\ loans = IF principal = <<>> THEN <<>>
                   ELSE <<LoanRow(1, principal[1], <<>>)>>
        /\ loans_id_seq = Len(principal)
        /\ loan_payments = {}
        /\ loan_payments_id_seq = 0
        /\ last = NoCall
        /\ pc = [c \in Clients |-> "idle"]
        /\ call = [c \in Clients |-> RaceCall(0, 0)]
        /\ scenario = NoScenario
        /\ ui = Refreshed(NoUi, members, loans, loan_payments)

NextPreview ==
    \/ HandleYearEndClick
    \/ HandleYearEndCancel
    \/ HandleConfirmClick
    \/ \E p \in PasswordInputs : SetPassword(p)
    \/ \E f \in ClearFaults : HandlePasswordSubmit(f)
    \/ HandlePasswordCancel
    \/ CloseYearEndReport

SpecPreview == InitPreview /\ [][NextPreview]_vars

\* The lending page: the first member has joined and the page has loaded.
\* Contributions and penalties are recorded, loans are made (of several
\* principals, with or without a status), and the year is cleared.
InitLending ==
    /\ members = <<MemberRow("Ana")>>
    /\ loans = <<>>
    /\ loan_payments = {}
    /\ contributions = {}
    /\ loans_id_seq = 0
    /\ loan_payments_id_seq = 0
    /\ contributions_id_seq = 0
    /\ last = Call("createMember", 0, "", <<>>, "none", NoLoanData, 0, "ok")
    /\ pc = [c \in Clients |-> "idle"]
    /\ call = [c \in Clients |-> RaceCall(0, 0)]
    /\ scenario = NoScenario
    /\ ui = Refreshed(NoUi, members, loans, loan_payments)

NextLending ==
    \/ \E t \in ContributionType : CreateContribution(1, t, 50000)
    \/ \E f \in {"none", "update"} : HandleRecordPenalty(1, PenaltyAmount, f)
    \/ \E b \in BorrowerInputs, p \in LoanPrincipals, s \in StatusInputs :
          CreateLoan(b, p, s)
    \/ \E f \in ClearFaults : ClearYearData(f)

SpecLending == InitLending /\ [][NextLending]_vars

\* The books with two loans on them (10,000.00 and 5,000.00, as two
\* createLoan calls leave them): payments are recorded and loans deleted.
InitBooks ==
    /\ members = <<MemberRow("Ana")>>
    /\ loans = <<LoanRow(1, 1000000, <<>>), LoanRow(1, 500000, <<>>)>>
    /\ loan_payments = {}
    /\ contributions = {}
    /\ loans_id_seq = 2
    /\ loan_payments_id_seq = 0
    /\ contributions_id_seq = 0
    /\ last = Call("createLoan", 2, "", <<500000>>, "none", NoLoanData, 0, "ok")
    /\ pc = [c \in Clients |-> "idle"]
    /\ call = [c \in Clients |-> RaceCall(0, 0)]
    /\ scenario = NoScenario
    /\ ui = NoUi

NextBooks ==
    \/ \E id \in BookLoanIds, t \in PaymentType :
          CreateLoanPayment(id, t, <<400000>>, "none")
    \/ \E id \in BookLoanIds, f \in DeleteFaults : DeleteLoan(id, f)

SpecBooks == InitBooks /\ [][NextBooks]_vars

\* The dashboard: the page of the first member makes a loan, records
\* payments on it and refreshes, every store call free to fail.
NextDashboard ==
    \/ HandleCreateLoan(1, 1000000)
    \/ \E id \in LoanIdInputs, t \in PaymentType, a \in {<<>>, <<400000>>},
          f \in PaymentFaults : HandleAddPayment(id, t, a, f)
    \/ \E f \in RefreshFaults : RefreshAll(f)

SpecDashboard == InitLending /\ [][NextDashboard]_vars

\* The page of the first member makes a loan and records payments on it
\* while the runs of the fetchAllPayments effect come back in any order.
NextFetch ==
    \/ HandleCreateLoanThenFetch(1, 1000000)
    \/ \E id \in LoanIdInputs, t \in PaymentType :
          HandleAddPaymentThenFetch(id, t, <<400000>>)
    \/ \E f \in ui.fetches : FetchAllPaymentsList(f)
    \/ \E f \in ui.fetches : FetchAllPaymentsSet(f)

SpecFetch == InitLending /\ [][NextFetch]_vars

\* The members page: contributions of the first member, and penalties
\* submitted while earlier submissions are still refreshing.
NextPenalty ==
    \/ \E t \in ContributionType : CreateContribution(1, t, 50000)
    \/ \E c \in Clients, a \in PenaltyInputs : RecordPenaltyUpdate(c, 1, a)
    \/ \E c \in Clients : RecordPenaltyRefresh(c)

SpecPenalty == InitLending /\ [][NextPenalty]_vars

----------------------------------------------------------------------------
\* Claims.

\* The call that just ran is a createLoanPayment of the given type.
RecordedPayment(c, payment_type) ==
    c.op = "createLoanPayment" /\ c.payment_type = payment_type

\* The payment row the call inserted, in the given table.
InsertedRow(c, rows) == CHOOSE r \in rows : r.id = c.payment_id

\* C1: a PRINCIPAL payment of a > 0 that createLoanPayment records without a
\* failing store call leaves the loan's stored principal at max(0, p - a),
\* p the principal before the call; when a = p the principal is 0 and the
\* status COMPLETED.
C1_PrincipalPaymentReducesPrincipal ==
    [][ (RecordedPayment(last', "PRINCIPAL") /\ last'.result = "ok") =>
          LET id == last'.loan_id
              a  == last'.amount[1]
              p  == loans[id].principal_amount
          IN  /\ a > 0
              /\ id \in DOMAIN loans'
              /\ loans'[id].principal_amount = Max(0, p - a)
              /\ a = p => /\ loans'[id].principal_amount = 0
                          /\ loans'[id].status = "COMPLETED" ]_vars

\* C1's case: a payment larger than what was left of the principal has
\* brought it to 0 and completed the loan.
C1_Witness ==
    /\ RecordedPayment(last, "PRINCIPAL") /\ last.result = "ok"
    /\ last.amount[1] > last.loanData.principal_amount
    /\ last.loanData.principal_amount > 0
    /\ loans[last.loan_id].principal_amount = 0
    /\ loans[last.loan_id].status = "COMPLETED"

\* C2: the row a SERVICE_CHARGE payment inserts carries the loan's
\* service_charge_amount as stored when the call ran, whatever amount the
\* caller supplied.
C2_ServiceChargeAmountIsLoans ==
    [][ (RecordedPayment(last', "SERVICE_CHARGE") /\ last'.payment_id # 0) =>
          LET row == InsertedRow(last', loan_payments')
          IN  /\ row \notin loan_payments
              /\ row.loan_id = last'.loan_id
              /\ row.payment_type = "SERVICE_CHARGE"
              /\ row.amount = loans[last'.loan_id].service_charge_amount ]_vars

\* C2's case: a SERVICE_CHARGE payment was recorded although the caller
\* supplied another amount.
C2_Witness ==
    /\ RecordedPayment(last, "SERVICE_CHARGE") /\ last.payment_id # 0
    /\ last.amount # <<>>
    /\ InsertedRow(last, loan_payments).amount # last.amount[1]

\* C3: a PRINCIPAL payment whose amount is 0, negative or missing ends in an
\* error raised before the insert is attempted, and changes nothing in the
\* store.
C3_InvalidPrincipalAmountRejected ==
    [][ ( /\ RecordedPayment(last', "PRINCIPAL")
          /\ (last'.amount = <<>> \/ last'.amount[1] <= 0) ) =>
          /\ last'.result = "error"
          /\ last'.failed \in {"select", "amount"}
          /\ last'.payment_id = 0
          /\ storeVars' = storeVars ]_vars

\* C3's case: a negative PRINCIPAL amount for an existing loan was rejected.
C3_Witness ==
    /\ RecordedPayment(last, "PRINCIPAL")
    /\ last.amount = <<-100>>
    /\ last.loan_id \in DOMAIN loans
    /\ last.failed = "amount"
    /\ last.result = "error"

\* C4: createLoanPayment for an id no loan has fails at the fetch of the
\* loan and changes nothing in the store.
C4_UnknownLoanRejected ==
    [][ (last'.op = "createLoanPayment" /\ last'.loan_id \notin DOMAIN loans) =>
          /\ last'.result = "error"
          /\ last'.failed = "select"
          /\ last'.payment_id = 0
          /\ storeVars' = storeVars ]_vars

\* C4's case: a well-formed payment for the id of a deleted loan was
\* rejected.
C4_Witness ==
    /\ last.op = "createLoanPayment"
    /\ last.loan_id \notin DOMAIN loans
    /\ last.loan_id <= loans_id_seq
    /\ last.amount = <<400000>>
    /\ last.result = "error"

\* the principal still owed: the stored principal, kept net of payments
RemainingPrincipal(loan_id) == loans[loan_id].principal_amount

\* the service charge still owed: the charge less the SERVICE_CHARGE payments
RemainingServiceCharge(loan_id) ==
    loans[loan_id].service_charge_amount - PaidOfType(loan_id, "SERVICE_CHARGE")

\* C5: in every reachable state the outstanding balance the dashboard
\* computes for a loan is non-negative and equals max(0, remaining
\* principal) + max(0, remaining service charge).
C5_OutstandingBalanceIsRemaining ==
    \A id \in DOMAIN loans :
        /\ OutstandingBalance(id) >= 0
        /\ OutstandingBalance(id) =
              Max(0, RemainingPrincipal(id)) + Max(0, RemainingServiceCharge(id))

C7_PrincipalPaymentAtomic ==
    [][ RecordedPayment(last', "PRINCIPAL") =>
          /\ last'.result = "error" => storeVars' = storeVars
          /\ last'.payment_id # 0 =>
                LET id == last'.loan_id
                IN  /\ loans'[id].principal_amount =
                          Max(0, loans[id].principal_amount - last'.amount[1])
                    /\ loans'[id].principal_amount = 0 =>
                          loans'[id].status = "COMPLETED" ]_vars

\* C8: two PRINCIPAL payments a1 and a2 racing on a loan of principal p end
\* with the stored principal at max(0, p - a1 - a2), and with status
\* COMPLETED exactly when that is 0.
C8_NoLostUpdate ==
    (\A c \in Clients : pc[c] = "done") =>
        LET loan  == loans[scenario.loan_id]
            final == Max(0, scenario.principal_amount
                            - scenario.amounts[1] - scenario.amounts[2])
        IN  /\ loan.principal_amount = final
            /\ loan.status = "COMPLETED" <=> final = 0

\* C9: clearYearData is all-or-nothing: when it returns or throws, either
\* loan_payments, loans and contributions are all empty or all three are as
\* they were before the call.
C9_ClearAllOrNothing ==
    [][ last'.op = "clearYearData" =>
          \/ /\ loan_payments' = {}
             /\ DOMAIN loans' = {}
             /\ contributions' = {}
          \/ /\ loan_payments' = loan_payments
             /\ loans' = loans
             /\ contributions' = contributions ]_vars

\* C10: after a clearYearData that returns, there is no loan, no payment and
\* no contribution, and the members are those of before the call, by id and
\* by name.
C10_ClearEmptiesYearKeepsMembers ==
    [][ (last'.op = "clearYearData" /\ last'.result = "ok") =>
          /\ DOMAIN loans' = {}
          /\ loan_payments' = {}
          /\ contributions' = {}
          /\ DOMAIN members' = DOMAIN members
          /\ \A i \in DOMAIN members :
                members'[i].full_name = members[i].full_name ]_vars

\* C10's case: a year with a member, a loan, a payment and a contribution
\* on record has been cleared.
C10_Witness ==
    /\ last.op = "clearYearData" /\ last.result = "ok"
    /\ DOMAIN members # {}
    /\ loans_id_seq > 0 /\ loan_payments_id_seq > 0 /\ contributions_id_seq > 0
    /\ DOMAIN loans = {} /\ loan_payments = {} /\ contributions = {}

\* C11: clearYearData deletes in dependency order. It issues the delete of
\* the loans only in a state with no payment row, and the delete of the
\* contributions only in a state with no loan row; and in every state, the
\* intermediate ones included, every payment row refers to an existing loan.
C11_ClearInDependencyOrder ==
    [][ /\ last'.op = "delete loans" => loan_payments = {}
        /\ last'.op = "delete contributions" => loans = <<>>
        /\ \A p \in loan_payments' : p.loan_id \in DOMAIN loans' ]_vars

\* The clear stands between its first and second delete: the payments there
\* were are gone, the loans and the contributions are still there.
C11_Witness ==
    /\ pc[1] = "deleted 1"
    /\ loan_payments_id_seq > 0 /\ loan_payments = {}
    /\ loans # <<>>
    /\ contributions # {}

\* C12: clearYearData is called only by a submit of the password prompt made
\* while the preview is open and the field holds exactly the passphrase; no
\* other step (a submit of an empty or different password, a cancel of the
\* preview or of the prompt) calls it.
C12_ClearOnlyAfterPassphrase ==
    [][ last'.op = "clearYearData"
        => /\ ui.yearEndModalOpen /\ ui.yearEndDistribution # <<>>
           /\ ui.showPasswordPrompt
           /\ ui.password = correctPassword ]_vars

\* The operator has gone through the prompt and the year is cleared.
C12_Witness ==
    /\ last.op = "clearYearData" /\ last.result = "ok"
    /\ ui.yearEndReportOpen /\ ~ui.yearEndModalOpen
    /\ loans = <<>> /\ contributions = {}

\* r is num / den (den > 0) rounded to the nearest whole, a half going up
IsRounded(r, num, den) ==
    /\ 2 * (num - r * den) < den
    /\ 2 * (num - r * den) >= -den

\* the totals of the members and loans the page holds
HeldTotalShares == SumFn([i \in DOMAIN ui.members |-> ui.members[i].total_shares])
HeldTotalEarnings ==
    SumFn([i \in DOMAIN ui.loans |-> ui.loans[i].service_charge_amount])
    + SumFn([i \in DOMAIN ui.members |-> ui.members[i].total_penalties])
HeldTotalSocialFund ==
    SumFn([i \in DOMAIN ui.members |->
              ui.members[i].total_social_fund_contributions])
HeldNumMembers == Cardinality(DOMAIN ui.members)

\* C13: the distribution computed for the preview gives each member, when
\* the total shares are positive, the member's fraction of the total shares
\* times the total earnings (service charges of all loans plus penalties of
\* all members) rounded to the centavo, and, when there is a member, the
\* total social fund over the number of members rounded to the centavo.
\* Shares of 1,000 and 3,000, one service charge of 100, no penalties and a
\* social fund of 200 give 25.00/100.00/1,125.00 and 75.00/100.00/3,175.00.
C13_DistributionFormula ==
    [][ last'.op = "handleYearEndClick"
        => LET d == ui'.yearEndDistribution[1].members
           IN  /\ \A i \in DOMAIN ui.members :
                     /\ HeldTotalShares > 0
                        => LET r == SharesRatio(ui.members[i].total_shares,
                                                HeldTotalShares)
                           IN  IsRounded(d[i].serviceChargeEarnings,
                                         r.num * HeldTotalEarnings, r.den)
                     /\ IsRounded(d[i].socialFundShare, HeldTotalSocialFund,
                                  HeldNumMembers)
               /\ ( /\ HeldNumMembers = 2
                    /\ ui.members[1].total_shares = 100000
                    /\ ui.members[2].total_shares = 300000
                    /\ HeldTotalEarnings = 10000
                    /\ HeldTotalSocialFund = 20000 )
                  => /\ d[1].serviceChargeEarnings = 2500
                     /\ d[1].socialFundShare = 10000
                     /\ d[1].totalDistribution = 112500
                     /\ d[2].serviceChargeEarnings = 7500
                     /\ d[2].socialFundShare = 10000
                     /\ d[2].totalDistribution = 317500 ]_vars

\* The preview of the example is open.
C13_Witness ==
    /\ last.op = "handleYearEndClick"
    /\ ui.yearEndDistribution # <<>>
    /\ ui.yearEndDistribution[1].summary =
           [totalShares |-> 400000, totalServiceChargeEarnings |-> 10000,
            totalSocialFund |-> 20000, numMembers |-> 2]
    /\ ui.yearEndDistribution[1].members[2].totalDistribution = 317500

\* C14, as the function computes it: when the members hold no share, every
\* member's serviceChargeEarnings is 0 whatever the earnings are, and all
\* members get the same socialFundShare, the total social fund over the
\* number of members rounded to the centavo.
C14_ZeroSharesRoundedSplit ==
    [][ (last'.op = "handleYearEndClick" /\ HeldNumMembers > 0
         /\ HeldTotalShares = 0)
        => LET d == ui'.yearEndDistribution[1].members
           IN  \A i \in DOMAIN ui.members :
                  /\ d[i].serviceChargeEarnings = 0
                  /\ \A j \in DOMAIN ui.members :
                        d[i].socialFundShare = d[j].socialFundShare
                  /\ IsRounded(d[i].socialFundShare, HeldTotalSocialFund,
                               HeldNumMembers) ]_vars

\* C14, as stated: with no share held, every member's socialFundShare is
\* exactly the total social fund divided by the number of members.
C14_ZeroSharesExactSplit ==
    [][ (last'.op = "handleYearEndClick" /\ HeldNumMembers > 0
         /\ HeldTotalShares = 0)
        => LET d == ui'.yearEndDistribution[1].members
           IN  \A i \in DOMAIN ui.members :
                  d[i].socialFundShare * HeldNumMembers = HeldTotalSocialFund
      ]_vars

\* A preview for two members without shares, with earnings to distribute and
\* a social fund of 100.01 to split.
C14_Witness ==
    /\ last.op = "handleYearEndClick"
    /\ ui.yearEndDistribution # <<>>
    /\ ui.yearEndDistribution[1].summary.totalShares = 0
    /\ ui.yearEndDistribution[1].summary.numMembers = 2
    /\ ui.yearEndDistribution[1].summary.totalServiceChargeEarnings > 0
    /\ ui.yearEndDistribution[1].summary.totalSocialFund = 10001

\* C15: the preview is pure. Opening the preview, cancelling it, asking for
\* the prompt, typing and cancelling the prompt change no member, loan,
\* payment or contribution of the store and none of the members and loans
\* the page holds; and the distribution shown is the function's value at
\* those members and loans, the same at every call.
C15_PreviewIsPure ==
    [][ last'.op \in {"handleYearEndClick", "handleYearEndCancel",
                      "handleConfirmClick", "setPassword",
                      "handlePasswordCancel"}
        => /\ UNCHANGED storeVars
           /\ ui'.members = ui.members /\ ui'.loans = ui.loans
           /\ last'.op = "handleYearEndClick"
              => ui'.yearEndDistribution =
                     <<computeYearEndDistribution(ui'.members, ui'.loans)>>
      ]_vars

\* A preview was opened and cancelled over a store with members,
\* contributions and a loan.
C15_Witness ==
    /\ last.op = "handleYearEndCancel"
    /\ ~ui.yearEndModalOpen /\ ui.yearEndDistribution = <<>>
    /\ loans # <<>> /\ contributions # {} /\ members # <<>>

C18_ResetZeroesAllBalances ==
    [][ /\ \A i \in DOMAIN members' :
              /\ members'[i].total_shares >= 0
              /\ members'[i].total_social_fund_contributions >= 0
              /\ members'[i].total_penalties >= 0
        /\ (last'.op = "clearYearData" /\ last'.result = "ok")
           => \A i \in DOMAIN members' :
                 /\ members'[i].total_shares = 0
                 /\ members'[i].total_social_fund_contributions = 0
                 /\ members'[i].total_penalties = 0 ]_vars

\* C19: after a deleteLoan(id) that returns, the store holds neither the loan
\* id nor a payment with loan_id = id, and every other loan and every payment
\* of another loan is as it was before the call.
C19_DeleteLoanFrame ==
    [][ (last'.op = "deleteLoan" /\ last'.result = "ok")
        => LET id == last'.loan_id
           IN  /\ id \notin DOMAIN loans'
               /\ \A p \in loan_payments' : p.loan_id # id
               /\ DOMAIN loans' = DOMAIN loans \ {id}
               /\ \A j \in DOMAIN loans' : loans'[j] = loans[j]
               /\ loan_payments' = {p \in loan_payments : p.loan_id # id}
      ]_vars

\* Loan 1 had a payment and has been deleted with it; loan 2 and its payment
\* are still on the books.
C19_Witness ==
    /\ last.op = "deleteLoan" /\ last.result = "ok" /\ last.loan_id = 1
    /\ DOMAIN loans = {2}
    /\ loan_payments_id_seq = 2
    /\ Cardinality(loan_payments) = 1
    /\ \A p \in loan_payments : p.loan_id = 2

\* C20: every store error is surfaced. When a call made while refreshing the
\* page (the loading of the payments for the dashboard included) or while
\* recording a payment fails, the page shows an error; and after a refresh
\* that shows none, the payments the dashboard totals are folded over are
\* all the payments of the loans the page holds.
C20_StoreErrorsAreSurfaced ==
    [][ /\ (last'.op \in {"refreshAll", "createLoanPayment", "handleAddPayment"}
            /\ last'.result = "error")
           => ui'.error # <<>>
        /\ (last'.op = "refreshAll" /\ ui'.error = <<>>)
           => ui'.allLoanPayments =
                  {p \in loan_payments' : p.loan_id \in DOMAIN ui'.loans}
      ]_vars

\* C22: in every reachable state of the ledger, whatever loans were created,
\* paid (either type, amounts above the remaining principal included),
\* re-statused and deleted, every loan's principal_amount and
\* service_charge_amount are 0 or more.
C22_AmountsNeverNegative ==
    \A id \in DOMAIN loans :
        /\ loans[id].principal_amount >= 0
        /\ loans[id].service_charge_amount >= 0

\* C22's case: the PRINCIPAL payments recorded on a loan add up to more than
\* it was created with, and its principal stands at 0.
C22_Witness ==
    \E id \in DOMAIN loans :
        /\ loans[id].principal_amount = 0
        /\ PaidOfType(id, "PRINCIPAL") * ServiceChargeRatePct
               > 100 * loans[id].service_charge_amount
        /\ loans[id].service_charge_amount > 0

\* C23: createLoanPayment changes a loan's status only by setting it to
\* COMPLETED when a PRINCIPAL payment brings the principal to exactly 0. A
\* SERVICE_CHARGE payment leaves the loan's principal and status as they
\* were, a PRINCIPAL payment that leaves principal > 0 leaves the status as
\* it was, and no payment changes another loan.
C23_PaymentStatusFrame ==
    [][ last'.op = "createLoanPayment" =>
          LET id == last'.loan_id
          IN  /\ DOMAIN loans' = DOMAIN loans
              /\ \A j \in DOMAIN loans : j # id => loans'[j] = loans[j]
              /\ id \in DOMAIN loans =>
                   /\ last'.payment_type = "SERVICE_CHARGE" =>
                        /\ loans'[id].principal_amount = loans[id].principal_amount
                        /\ loans'[id].status = loans[id].status
                   /\ loans'[id].principal_amount > 0 =>
                        loans'[id].status = loans[id].status
                   /\ loans'[id].status # loans[id].status =>
                        /\ last'.payment_type = "PRINCIPAL"
                        /\ loans'[id].status = "COMPLETED"
                        /\ loans'[id].principal_amount = 0
      ]_vars

\* C23's case: with two loans on the books, a PRINCIPAL payment on the
\* second has left principal > 0 and its status APPROVED, after a
\* SERVICE_CHARGE payment was recorded on the first.
C23_Witness ==
    /\ RecordedPayment(last, "PRINCIPAL") /\ last.result = "ok"
    /\ last.loan_id = 2
    /\ DOMAIN loans = {1, 2}
    /\ loans[2].principal_amount > 0
    /\ loans[2].principal_amount < last.loanData.principal_amount
    /\ loans[2].status = "APPROVED"
    /\ PaidOfType(1, "SERVICE_CHARGE") > 0

\* C24: the unpaid principal the dashboard attributes to a loan created with
\* principal P0 is max(0, P0 - S), S the sum of its PRINCIPAL payments: it
\* is the principal when the loan is created, and each recorded PRINCIPAL
\* payment of a lowers it by a, not below 0 (each payment is counted once).
C24_UnpaidPrincipalCountsPaymentsOnce ==
    [][ \A id \in LoanIdInputs :
        /\ (last'.op = "createLoan" /\ last'.result = "ok"
             /\ last'.loan_id = id) =>
               UnpaidPrincipal(id)' = last'.amount[1]
        /\ (RecordedPayment(last', "PRINCIPAL") /\ last'.result = "ok"
             /\ last'.loan_id = id) =>
               UnpaidPrincipal(id)' = Max(0, UnpaidPrincipal(id) - last'.amount[1])
      ]_vars

\* C25: a loan's service charge is settled at most once. In every reachable
\* state, for every loan, the amounts of its SERVICE_CHARGE payments add up
\* to no more than the service charge computed for it at creation, however
\* many SERVICE_CHARGE payments are recorded.
C25_ServiceChargeSettledOnce ==
    \A id \in DOMAIN loans :
        PaidOfType(id, "SERVICE_CHARGE") <= loans[id].service_charge_amount

\* C26: the automatic advance to COMPLETED is taken only from a non-terminal
\* status. Recording a PRINCIPAL payment on a loan whose status is CANCELLED
\* never changes that status to COMPLETED.
C26_CancelledNeverCompleted ==
    [][ ( /\ RecordedPayment(last', "PRINCIPAL")
          /\ last'.loan_id \in DOMAIN loans
          /\ loans[last'.loan_id].status = "CANCELLED" ) =>
          loans'[last'.loan_id].status # "COMPLETED" ]_vars

\* C27: the year-end distribution never pays out more than the pools it
\* divides. The serviceChargeEarnings of the members add up to no more than
\* the total earnings (service charges plus penalties), and their
\* socialFundShare to no more than the total social fund, the rounding of
\* each member's amount to the centavo notwithstanding.
C27_DistributionWithinPools ==
    [][ last'.op = "handleYearEndClick"
        => LET d == ui'.yearEndDistribution[1].members
               s == ui'.yearEndDistribution[1].summary
           IN  /\ SumFn([i \in DOMAIN d |-> d[i].serviceChargeEarnings])
                     <= s.totalServiceChargeEarnings
               /\ SumFn([i \in DOMAIN d |-> d[i].socialFundShare])
                     <= s.totalSocialFund ]_vars

\* C28: in every row of the year-end distribution the totalDistribution is
\* the sum of the three components the row reports: totalShares,
\* serviceChargeEarnings as rounded and socialFundShare as rounded.
C28_RowTotalIsSumOfComponents ==
    [][ last'.op = "handleYearEndClick"
        => LET d == ui'.yearEndDistribution[1].members
           IN  \A i \in DOMAIN d :
                  d[i].totalDistribution =
                      d[i].totalShares + d[i].serviceChargeEarnings
                      + d[i].socialFundShare ]_vars

\* C30: in the year-end confirm flow the report is opened and the preview
\* modal closed only after clearYearData has completed successfully, and the
\* report shows the distribution computed before the clear. If clearYearData
\* fails, the error is shown, the report is not opened and the modal stays
\* open. The year-end loading flag is false again in both cases.
C30_ReportOnlyAfterSuccessfulClear ==
    [][ /\ last'.op = "clearYearData" =>
            /\ ui.yearEndModalOpen /\ ~ui.yearEndReportOpen
            /\ ui'.yearEndLoading = FALSE
            /\ last'.result = "ok" =>
                 /\ loan_payments' = {} /\ loans' = <<>> /\ contributions' = {}
                 /\ ui'.yearEndReportOpen /\ ~ui'.yearEndModalOpen
                 /\ ui'.yearEndDistribution # <<>>
                 /\ ui'.yearEndDistribution = ui.yearEndDistribution
            /\ last'.result = "error" =>
                 /\ ui'.error # <<>>
                 /\ ~ui'.yearEndReportOpen
                 /\ ui'.yearEndModalOpen
                 /\ ui'.yearEndDistribution = ui.yearEndDistribution
        /\ (ui'.yearEndReportOpen /\ ~ui.yearEndReportOpen) =>
            (last'.op = "clearYearData" /\ last'.result = "ok")
      ]_vars

\* C30's case: the clear has succeeded, the store is empty, the modal is
\* closed, and the open report shows the shares and earnings of before the
\* clear.
C30_Witness ==
    /\ last.op = "clearYearData" /\ last.result = "ok"
    /\ contributions = {} /\ loans = <<>>
    /\ ui.yearEndReportOpen /\ ~ui.yearEndModalOpen /\ ~ui.yearEndLoading
    /\ ui.yearEndDistribution # <<>>
    /\ ui.yearEndDistribution[1].summary.totalShares > 0
    /\ ui.yearEndDistribution[1].summary.totalServiceChargeEarnings > 0
    /\ ui.loans = <<>>

\* C21: aggregation has no staleness. Once every run of the payment fetch
\* has completed after the last change to the loan list, the payments the
\* dashboard totals are folded over are the store's payments of the loans
\* the page holds, whatever the order in which overlapping runs started by
\* successive changes of the loan list come back.
C21_NoStalePayments ==
    ui.fetches = {} =>
        ui.allLoanPayments = {p \in loan_payments : p.loan_id \in DOMAIN ui.loans}

\* C29: recording attendance penalties is additive and touches nothing
\* else. Every penalty of a > 0 recorded for a member adds a to the member's
\* total_penalties (so after a1..ak it is the initial value + a1 + ... +
\* ak), also when it is submitted before the refresh of an earlier one has
\* completed, and leaves the shares and social-fund balances of all members
\* as they were; an amount that is not positive or not finite performs no
\* store write.
C29_PenaltiesAreAdditive ==
    [][ last'.op = "handleRecordPenalty" =>
          /\ last'.result = "ok" =>
               /\ SumFn([i \in DOMAIN members' |-> members'[i].total_penalties])
                    = SumFn([i \in DOMAIN members |-> members[i].total_penalties])
                      + last'.amount[1]
               /\ \A i \in DOMAIN members :
                    /\ members'[i].total_penalties >= members[i].total_penalties
                    /\ members'[i].total_shares = members[i].total_shares
                    /\ members'[i].total_social_fund_contributions =
                           members[i].total_social_fund_contributions
               /\ contributions' = contributions
          /\ PenaltyRefused(last'.amount) => storeVars' = storeVars
      ]_vars

====
